---- MODULE Spec2Model ----
(***************************************************************************)
(* Model of src/index.ts: the retrying HTTP delivery postWithRetry, the     *)
(* BlobWatcher handler that calls it and parseFromContext.                  *)
(*                                                                         *)
(* One record per running call of postWithRetry holds its arguments (url,   *)
(* body, headers), its locals (attempt, lastResp, resp, timer, backoff),    *)
(* its position (pc) and observations (requests sent, requests in flight,   *)
(* timers armed, backoffs completed, the outcome of every loop iteration,   *)
(* the lines logged, the value returned or thrown).                         *)
(***************************************************************************)
EXTENDS Integers, Sequences, FiniteSets, TLC

VARIABLES
    MAX_RETRIES,       \* index.ts:11, read once from the environment, never written
    call,              \* call id -> the state of that call of postWithRetry
    DOWNSTREAM_URL,    \* index.ts:4
    DOWNSTREAM_KEY,    \* index.ts:5
    FAIL_ON_NON_2XX,   \* index.ts:8
    inv,               \* invocation id -> the state of that run of BlobWatcher
    ctx,               \* the trigger metadata handed to parseFromContext
    parsed             \* what parseFromContext returned for ctx

\* The configuration, read once when the module is loaded
env == <<MAX_RETRIES, DOWNSTREAM_URL, DOWNSTREAM_KEY, FAIL_ON_NON_2XX>>

\* What a step of postWithRetry leaves alone
outside == <<env, inv, ctx, parsed>>

vars == <<MAX_RETRIES, call, DOWNSTREAM_URL, DOWNSTREAM_KEY, FAIL_ON_NON_2XX,
          inv, ctx, parsed>>

(***************************************************************************)
(* Bounds and program constants                                            *)
(***************************************************************************)
MaxRetriesBound == 3      \* MAX_RETRIES ranges over -1..MaxRetriesBound
PairRetriesBound == 2     \* the same where two calls run: -1..PairRetriesBound
ConcRetriesBound == 1     \* the same where two calls interleave

RETRY_BASE_MS == 400      \* index.ts:13 (default)
TIMEOUT_MS == 8000        \* index.ts:12 (default)
JITTER_RANGE == 150       \* index.ts:90, Math.floor(Math.random() * 150)

\* index.ts:15-20, the default set of retryable statuses
RETRY_STATUSES == {408, 429, 500, 502, 503, 504}

\* index.ts:11: Number(process.env.MAX_RETRIES ?? 3) is not validated, so a
\* negative value can be configured (NaN compares like it: every <= is false).
MaxRetriesValues == (0 - 1)..MaxRetriesBound

\* The same, for the specifications that run two calls
PairRetriesValues == (0 - 1)..PairRetriesBound

\* Statuses the downstream answers with: 2xx and its edges, a non-retryable
\* rejection, two retryable ones.
Statuses == {200, 299, 300, 404, 500, 503}

\* Messages of the errors fetch rejects with, other than the abort.
NetErrorMessages == {"fetch failed", "ECONNRESET"}

\* Values of Math.floor(Math.random() * 150): both ends of 0..149.
Jitters == {0, JITTER_RANGE - 1}

\* Bodies handed to postWithRetry: one JSON.stringify accepts, one it throws on.
Bodies == {"payload", "circular"}

\* index.ts:145-146: the header set, without and with the function key
JsonHeaders == {"content-type"}

KeyHeaders == {"content-type", "x-functions-key"}

HeaderSets == {JsonHeaders, KeyHeaders}

\* A configured DOWNSTREAM_FUNCTION_URL
Url == "https://downstream/api"

(***************************************************************************)
(* Values                                                                  *)
(***************************************************************************)
NoStatus == 0     \* stands for `undefined` where a Response is expected

RespOutcome(status) ==
    [kind |-> "response", status |-> status, name |-> "", message |-> ""]

ErrOutcome(kind, name, message) ==
    [kind |-> kind, status |-> NoStatus, name |-> name, message |-> message]

AbortError == ErrOutcome("reject", "AbortError", "This operation was aborted")

NetError(message) == ErrOutcome("reject", "TypeError", message)

SerializeError == ErrOutcome("serialize", "TypeError", "Converting circular structure to JSON")

NoResult == [kind |-> "none", status |-> NoStatus, reason |-> "", retries |-> 0]

Returned(status) ==
    [kind |-> IF status = NoStatus THEN "undefined" ELSE "response",
     status |-> status, reason |-> "", retries |-> 0]

Thrown(reason) ==
    [kind |-> "error", status |-> NoStatus, reason |-> reason, retries |-> MAX_RETRIES]

RECURSIVE Pow2(_)
Pow2(n) == IF n <= 0 THEN 1 ELSE 2 * Pow2(n - 1)

(***************************************************************************)
(* The decisions of postWithRetry                                          *)
(***************************************************************************)
\* index.ts:73
LoopCond(attempt) == attempt <= MAX_RETRIES

\* index.ts:81, JSON.stringify(body) throws on a circular structure
CanSerialize(body) == body # "circular"

\* index.ts:86, Response.ok
RespOk(status) == status >= 200 /\ status <= 299

\* Mutant: a retryable status is retried whatever is left of the budget
RetryOnStatusIgnoresBudget(status, attempt) == status \in RETRY_STATUSES

\* Mutant: every non-2xx status is retried while the budget lasts
RetryOnStatusAny(status, attempt) == attempt < MAX_RETRIES

\* index.ts:89
RetryOnStatus(status, attempt) ==
    status \in RETRY_STATUSES /\ attempt < MAX_RETRIES

\* Mutant: off by one, the failure of the last attempt is retried too
RetryOnErrorOffByOne(attempt) == attempt <= MAX_RETRIES

\* index.ts:105
RetryOnError(attempt) == attempt < MAX_RETRIES

\* Mutant: the delay grows linearly with the attempt index
BackoffLinear(attempt, jitter) == RETRY_BASE_MS * (attempt + 1) + jitter

\* index.ts:90 and index.ts:106
Backoff(attempt, jitter) == RETRY_BASE_MS * Pow2(attempt) + jitter

\* index.ts:102-103
IsAbort(err) == err.name = "AbortError"

Reason(err) == IF IsAbort(err) THEN "timeout" ELSE err.message

(***************************************************************************)
(* The steps of one call, as functions of its state                        *)
(***************************************************************************)
\* index.ts:64-71
InitCall(url, body, headers) ==
    [pc |-> "loop", url |-> url, body |-> body, headers |-> headers,
     attempt |-> 0, lastResp |-> NoStatus,
     resp |-> NoStatus, timer |-> FALSE, timers |-> {}, backoff |-> 0,
     inflight |-> 0, fetches |-> 0, backoffs |-> 0, sent |-> << >>,
     history |-> << >>, log |-> << >>, result |-> NoResult]

\* index.ts:78-83: what one request carries
Request(st) == [url |-> st.url, headers |-> st.headers, body |-> st.body]

\* index.ts:91 and index.ts:107: the line logged before a backoff
RetryLog(attempt, cause, delay) ==
    [attempt |-> attempt + 1, of |-> MAX_RETRIES, cause |-> cause, delay |-> delay]

\* index.ts:74-75: a new controller, and its timer armed for this iteration
ArmTimer(st) ==
    [st EXCEPT !.timer = TRUE, !.timers = @ \cup {st.attempt}]

\* Mutant: clearTimeout is forgotten, the timer stays armed
ClearTimerForgotten(st) == st

\* index.ts:84 and index.ts:101: clearTimeout(timer) of this iteration
ClearTimer(st) ==
    [st EXCEPT !.timer = FALSE, !.timers = @ \ {st.attempt}]

\* Mutant: the request is issued but not awaited, the loop runs on
IssueFetchNoAwait(st) ==
    [ArmTimer(st) EXCEPT !.inflight = @ + 1, !.fetches = @ + 1,
                         !.sent = Append(@, Request(st))]

\* Mutant: a retry marks its request with one more header
IssueFetchRetryHeader(st) ==
    [ArmTimer(st) EXCEPT
        !.pc = "fetching", !.inflight = @ + 1, !.fetches = @ + 1,
        !.sent = Append(@, [Request(st) EXCEPT
                               !.headers = IF st.attempt > 0
                                           THEN @ \cup {"x-retry"} ELSE @])]

\* index.ts:74-83: the timer is armed, the request is issued and awaited
IssueFetch(st) ==
    [ArmTimer(st) EXCEPT !.pc = "fetching", !.inflight = @ + 1,
                         !.fetches = @ + 1, !.sent = Append(@, Request(st))]

\* Mutant: only status 200 counts as success and every other status is retried
\* while the budget lasts
OnResponseOnly200(st, status, jitter) ==
    LET got == [ClearTimer(st) EXCEPT !.inflight = @ - 1, !.resp = status,
                          !.history = Append(@, RespOutcome(status))]
    IN  IF status = 200
        THEN [got EXCEPT !.pc = "done", !.result = Returned(status)]
        ELSE IF st.attempt < MAX_RETRIES
        THEN [got EXCEPT !.pc = "backoffStatus",
                         !.backoff = Backoff(st.attempt, jitter),
                         !.log = Append(@, RetryLog(st.attempt, RespOutcome(status),
                                                    Backoff(st.attempt, jitter)))]
        ELSE [got EXCEPT !.pc = "done", !.result = Returned(status)]

\* Mutant: a non-2xx response that cannot be retried is thrown, not returned
OnResponseThrowsNon2xx(st, status, jitter) ==
    LET got == [ClearTimer(st) EXCEPT !.inflight = @ - 1, !.resp = status,
                          !.history = Append(@, RespOutcome(status))]
    IN  IF RespOk(status)
        THEN [got EXCEPT !.pc = "done", !.result = Returned(status)]
        ELSE IF RetryOnStatus(status, st.attempt)
        THEN [got EXCEPT !.pc = "backoffStatus",
                         !.backoff = Backoff(st.attempt, jitter),
                         !.log = Append(@, RetryLog(st.attempt, RespOutcome(status),
                                                    Backoff(st.attempt, jitter)))]
        ELSE [got EXCEPT !.pc = "done", !.result = Thrown("status")]

\* index.ts:84-99: the request resolved with a response
OnResponse(st, status, jitter) ==
    LET got == [ClearTimer(st) EXCEPT !.inflight = @ - 1, !.resp = status,
                          !.history = Append(@, RespOutcome(status))]
    IN  IF RespOk(status)
        THEN [got EXCEPT !.pc = "done", !.result = Returned(status)]
        ELSE IF RetryOnStatus(status, st.attempt)
        THEN [got EXCEPT !.pc = "backoffStatus",
                         !.backoff = Backoff(st.attempt, jitter),
                         !.log = Append(@, RetryLog(st.attempt, RespOutcome(status),
                                                    Backoff(st.attempt, jitter)))]
        ELSE [got EXCEPT !.pc = "done", !.result = Returned(status)]

\* Mutant: a timeout is not retried, it ends the call at any attempt
OnCatchAbortTerminal(st, err, jitter) ==
    LET got == [ClearTimer(st) EXCEPT
                          !.inflight = IF err.kind = "reject" THEN @ - 1 ELSE @,
                          !.history = Append(@, err)]
    IN  IF RetryOnError(st.attempt) /\ ~IsAbort(err)
        THEN [got EXCEPT !.pc = "backoffError",
                         !.backoff = Backoff(st.attempt, jitter),
                         !.log = Append(@, RetryLog(st.attempt, err,
                                                    Backoff(st.attempt, jitter)))]
        ELSE [got EXCEPT !.pc = "done", !.result = Thrown(Reason(err))]

\* index.ts:100-115: the try block threw err (a rejection of the awaited fetch,
\* or JSON.stringify throwing before fetch is called)
OnCatch(st, err, jitter) ==
    LET got == [ClearTimer(st) EXCEPT
                          !.inflight = IF err.kind = "reject" THEN @ - 1 ELSE @,
                          !.history = Append(@, err)]
    IN  IF RetryOnError(st.attempt)
        THEN [got EXCEPT !.pc = "backoffError",
                         !.backoff = Backoff(st.attempt, jitter),
                         !.log = Append(@, RetryLog(st.attempt, err,
                                                    Backoff(st.attempt, jitter)))]
        ELSE [got EXCEPT !.pc = "done", !.result = Thrown(Reason(err))]

\* index.ts:75: the timer armed in iteration n fires and aborts the controller of
\* that iteration; only the request issued with that controller's signal is
\* rejected, with an AbortError handled at index.ts:100-115
OnTimerFired(st, n, jitter) ==
    IF st.pc = "fetching" /\ n = st.attempt
    THEN OnCatch(st, AbortError, jitter)
    ELSE [st EXCEPT !.timers = @ \ {n}]

\* Mutant: the backoff promise is never resolved
OnBackoffElapsedNeverResolves(st) == st

\* Mutant: `attempt` is one counter shared by the running calls
OnBackoffElapsedSharedCounter(st) ==
    LET shared == CHOOSE a \in {call[c].attempt : c \in DOMAIN call} :
                      \A c \in DOMAIN call : call[c].attempt <= a
    IN  [st EXCEPT !.pc = "loop", !.attempt = shared + 1, !.backoff = 0,
                   !.backoffs = @ + 1,
                   !.lastResp = IF st.pc = "backoffStatus" THEN st.resp ELSE @]

\* Mutant: the retry forgets attempt++
OnBackoffElapsedNoIncrement(st) ==
    [st EXCEPT !.pc = "loop", !.backoff = 0, !.backoffs = @ + 1,
               !.lastResp = IF st.pc = "backoffStatus" THEN st.resp ELSE @]

\* index.ts:93-95 and index.ts:109-110: the backoff promise resolved
OnBackoffElapsed(st) ==
    [st EXCEPT !.pc = "loop", !.attempt = @ + 1, !.backoff = 0,
               !.backoffs = @ + 1,
               !.lastResp = IF st.pc = "backoffStatus" THEN st.resp ELSE @]

\* index.ts:119
OnFallThrough(st) ==
    [st EXCEPT !.pc = "done", !.result = Returned(st.lastResp)]


(***************************************************************************)
(* Strings are sequences of characters; parseFromContext                    *)
(***************************************************************************)
MaxLen == 5       \* longest blobTrigger descriptor drawn

Chars == {"a", "b", "c", "/"}

Strings(n) == UNION {[1..k -> Chars] : k \in 0..n}

Includes(s, ch) == \E i \in 1..Len(s) : s[i] = ch

\* Mutant: lastIndexOf
LastIndexOf(s, ch) ==
    IF Includes(s, ch)
    THEN (CHOOSE i \in 1..Len(s) :
              s[i] = ch /\ \A j \in (i + 1)..Len(s) : s[j] # ch) - 1
    ELSE 0 - 1

\* String.prototype.indexOf, 0-based, -1 when absent
IndexOf(s, ch) ==
    IF Includes(s, ch)
    THEN (CHOOSE i \in 1..Len(s) :
              s[i] = ch /\ \A j \in 1..(i - 1) : s[j] # ch) - 1
    ELSE 0 - 1

\* String.prototype.slice(from, to) and slice(from), 0-based, `to` excluded
Slice(s, from, to) == SubSeq(s, from + 1, to)

SliceFrom(s, from) == SubSeq(s, from + 1, Len(s))

\* index.ts:52, replace(/^\/+/, "")
RECURSIVE StripLeadingSlashes(_)
StripLeadingSlashes(s) ==
    IF Len(s) > 0 /\ s[1] = "/" THEN StripLeadingSlashes(Tail(s)) ELSE s

\* index.ts:52, split("/"): the pieces between the slashes, empty ones kept
RECURSIVE Split(_, _)
Split(s, ch) ==
    IF Includes(s, ch)
    THEN <<Slice(s, 0, IndexOf(s, ch))>> \o Split(SliceFrom(s, IndexOf(s, ch) + 1), ch)
    ELSE <<s>>

\* index.ts:55, join("/")
RECURSIVE Join(_, _)
Join(parts, ch) ==
    IF Len(parts) = 0 THEN << >>
    ELSE IF Len(parts) = 1 THEN parts[1]
    ELSE parts[1] \o <<ch>> \o Join(Tail(parts), ch)

\* triggerMetadata.uri: absent, a text new URL() throws on, or a URL, given by
\* the pathname new URL() reports for it
NoUri == [kind |-> "absent", pathname |-> << >>]

BadUri == [kind |-> "invalid", pathname |-> << >>]

UrlWithPath(pathname) == [kind |-> "url", pathname |-> pathname]

Pathnames ==
    { <<"/">>,
      <<"/", "d">>,
      <<"/", "d", "/", "c">>,
      <<"/", "d", "/", "c", "/", "p">>,
      <<"/", "d", "/", "c", "/", "p", "/", "q">>,
      <<"/", "/", "d", "/", "c", "/", "p">> }

Uris == {NoUri, BadUri} \cup {UrlWithPath(p) : p \in Pathnames}

Metadata(blobTrigger, uri) == [blobTrigger |-> blobTrigger, uri |-> uri]

Blob(container, name) == [container |-> container, name |-> name]

NoContext == Metadata(<< >>, NoUri)

\* parseFromContext has not returned yet
Unparsed == Blob(<<"?">>, <<"?">>)

\* index.ts:47-58
ParseUri(uri) ==
    IF uri.kind = "url"
    THEN LET parts == Split(StripLeadingSlashes(uri.pathname), "/")
         IN  Blob(IF Len(parts) >= 2 THEN parts[2] ELSE << >>,
                  Join(SubSeq(parts, 3, Len(parts)), "/"))
    ELSE Blob(<< >>, << >>)

\* index.ts:36-61
parseFromContext(meta) ==
    IF meta.blobTrigger # << >> /\ Includes(meta.blobTrigger, "/")
    THEN LET firstSlash == IndexOf(meta.blobTrigger, "/")
         IN  Blob(Slice(meta.blobTrigger, 0, firstSlash),
                  SliceFrom(meta.blobTrigger, firstSlash + 1))
    ELSE IF meta.uri.kind # "absent"
    THEN ParseUri(meta.uri)
    ELSE Blob(<< >>, << >>)

(***************************************************************************)
(* The steps of one run of BlobWatcher, as functions of its state          *)
(***************************************************************************)
\* Mutant: the configuration is not checked
ConfiguredAlways == TRUE

\* index.ts:125
Configured == DOWNSTREAM_URL # ""

\* index.ts:145-146
Headers == IF DOWNSTREAM_KEY # "" THEN KeyHeaders ELSE JsonHeaders

Line(what, status, reason) == [what |-> what, status |-> status, reason |-> reason]

\* index.ts:123
InitInv(meta) ==
    [pc |-> "trigger", triggerMetadata |-> meta, payload |-> Blob(<< >>, << >>),
     headers |-> {}, log |-> << >>, outcome |-> "pending", error |-> ""]

\* A call of postWithRetry that has not been made
IdleCall == [InitCall("", "payload", {}) EXCEPT !.pc = "idle"]

\* index.ts:125-129
OnConfigError(iv) ==
    [iv EXCEPT !.pc = "done",
               !.log = Append(@, Line("Config error", NoStatus, "")),
               !.outcome = "thrown",
               !.error = "Missing DOWNSTREAM_FUNCTION_URL"]

\* index.ts:139-154, up to the await of postWithRetry
OnInvoke(iv) ==
    [iv EXCEPT !.pc = "awaiting",
               !.payload = parseFromContext(iv.triggerMetadata),
               !.headers = Headers,
               !.log = @ \o <<Line("New blob detected", NoStatus, ""),
                              Line("Posting to downstream", NoStatus, "")>>]

\* Mutant: the final error is rethrown without being logged
OnFinalErrorNoLog(iv, result) ==
    [iv EXCEPT !.pc = "done", !.outcome = "thrown", !.error = result.reason]

\* index.ts:155-159: postWithRetry threw
OnFinalError(iv, result) ==
    [iv EXCEPT !.pc = "done",
               !.log = Append(@, Line("Downstream final error", NoStatus,
                                      result.reason)),
               !.outcome = "thrown",
               !.error = result.reason]

\* Mutant: a failure to read the body is not caught and fails the invocation
OnResponseReturnedReadThrows(iv, status, readOk) ==
    IF ~readOk
    THEN [iv EXCEPT !.pc = "done", !.outcome = "thrown", !.error = "body"]
    ELSE [iv EXCEPT !.pc = "done",
               !.log = Append(@, Line("Downstream returned", status, "")),
               !.outcome = IF ~RespOk(status) /\ FAIL_ON_NON_2XX
                           THEN "thrown" ELSE "returned",
               !.error = IF ~RespOk(status) /\ FAIL_ON_NON_2XX
                         THEN "Downstream call failed" ELSE ""]

\* index.ts:161-168: postWithRetry returned a response; reading its body for
\* the log succeeds (readOk) or fails and is replaced by ""
OnResponseReturned(iv, status, readOk) ==
    [iv EXCEPT !.pc = "done",
               !.log = Append(@, Line("Downstream returned", status,
                                      IF readOk THEN "body" ELSE "")),
               !.outcome = IF ~RespOk(status) /\ FAIL_ON_NON_2XX
                           THEN "thrown" ELSE "returned",
               !.error = IF ~RespOk(status) /\ FAIL_ON_NON_2XX
                         THEN "Downstream call failed" ELSE ""]

\* index.ts:162: postWithRetry returned undefined, resp.text() throws a TypeError
OnUndefinedReturned(iv) ==
    [iv EXCEPT !.pc = "done", !.outcome = "thrown", !.error = "TypeError"]

(***************************************************************************)
(* Actions                                                                 *)
(***************************************************************************)
Ids == DOMAIN call

\* postWithRetry is called directly: no run of BlobWatcher, nothing parsed
NoHandler ==
    /\ DOWNSTREAM_URL = Url
    /\ DOWNSTREAM_KEY = ""
    /\ FAIL_ON_NON_2XX = TRUE
    /\ inv = << >>
    /\ ctx = NoContext
    /\ parsed = Blob(<< >>, << >>)

Init ==
    /\ MAX_RETRIES \in MaxRetriesValues
    /\ \E body \in Bodies, headers \in HeaderSets :
         call = [c \in {1} |-> InitCall(Url, body, headers)]
    /\ NoHandler

\* index.ts:73-83
StartAttempt(c) ==
    /\ call[c].pc = "loop"
    /\ LoopCond(call[c].attempt)
    /\ CanSerialize(call[c].body)
    /\ call' = [call EXCEPT ![c] = IssueFetch(call[c])]
    /\ UNCHANGED outside

\* index.ts:73-81 then 100-115: JSON.stringify throws inside the try block
SerializeFail(c) ==
    /\ call[c].pc = "loop"
    /\ LoopCond(call[c].attempt)
    /\ ~CanSerialize(call[c].body)
    /\ \E j \in Jitters :
         call' = [call EXCEPT ![c] =
                     OnCatch(ArmTimer(call[c]), SerializeError, j)]
    /\ UNCHANGED outside

\* index.ts:73 false, then index.ts:119
FallThrough(c) ==
    /\ call[c].pc = "loop"
    /\ ~LoopCond(call[c].attempt)
    /\ call' = [call EXCEPT ![c] = OnFallThrough(call[c])]
    /\ UNCHANGED outside

\* index.ts:78-99
Respond(c) ==
    /\ call[c].pc = "fetching"
    /\ \E s \in Statuses, j \in Jitters :
         call' = [call EXCEPT ![c] = OnResponse(call[c], s, j)]
    /\ UNCHANGED outside

\* index.ts:78-83 rejects with a transport error, then index.ts:100-115
FetchReject(c) ==
    /\ call[c].pc = "fetching"
    /\ \E m \in NetErrorMessages, j \in Jitters :
         call' = [call EXCEPT ![c] = OnCatch(call[c], NetError(m), j)]
    /\ UNCHANGED outside

\* index.ts:75: the timer fires, the controller aborts the request and fetch
\* rejects with an AbortError, then index.ts:100-115
Timeout(c) ==
    /\ \E n \in call[c].timers, j \in Jitters :
         call' = [call EXCEPT ![c] = OnTimerFired(call[c], n, j)]
    /\ UNCHANGED outside

\* index.ts:92-95 and index.ts:108-110
BackoffElapsed(c) ==
    /\ call[c].pc \in {"backoffStatus", "backoffError"}
    /\ call' = [call EXCEPT ![c] = OnBackoffElapsed(call[c])]
    /\ UNCHANGED outside

Next ==
    \/ \E c \in Ids : StartAttempt(c)
    \/ \E c \in Ids : SerializeFail(c)
    \/ \E c \in Ids : FallThrough(c)
    \/ \E c \in Ids : Respond(c)
    \/ \E c \in Ids : FetchReject(c)
    \/ \E c \in Ids : Timeout(c)
    \/ \E c \in Ids : BackoffElapsed(c)

Spec == Init /\ [][Next]_vars

\* Every awaited request resolves, with a response, a rejection or the abort of
\* its timer, and every backoff timer fires: a step that can be taken is taken
SpecLive == Init /\ [][Next]_vars /\ WF_vars(Next)

(***************************************************************************)
(* Two calls run side by side on outcome sequences that agree except that  *)
(* where one has a transport failure the other has a transport failure of   *)
(* any kind (a timeout for a connection error, or the reverse).  The calls  *)
(* share nothing, so the pair is stepped together.                          *)
(***************************************************************************)
TransportFailures == {AbortError} \cup {NetError(m) : m \in NetErrorMessages}

AllAt(pcs) == \A c \in Ids : call[c].pc \in pcs

InitTwin ==
    /\ MAX_RETRIES \in PairRetriesValues
    /\ \E body \in Bodies :
         call = [c \in {1, 2} |-> InitCall(Url, body, JsonHeaders)]
    /\ NoHandler

TwinStartAttempt ==
    /\ AllAt({"loop"})
    /\ \A c \in Ids : LoopCond(call[c].attempt) /\ CanSerialize(call[c].body)
    /\ call' = [c \in Ids |-> IssueFetch(call[c])]
    /\ UNCHANGED outside

TwinSerializeFail ==
    /\ AllAt({"loop"})
    /\ \A c \in Ids : LoopCond(call[c].attempt) /\ ~CanSerialize(call[c].body)
    /\ \E j \in Jitters :
         call' = [c \in Ids |->
                     OnCatch(ArmTimer(call[c]), SerializeError, j)]
    /\ UNCHANGED outside

TwinFallThrough ==
    /\ AllAt({"loop"})
    /\ \A c \in Ids : ~LoopCond(call[c].attempt)
    /\ call' = [c \in Ids |-> OnFallThrough(call[c])]
    /\ UNCHANGED outside

TwinRespond ==
    /\ AllAt({"fetching"})
    /\ \E s \in Statuses, j \in Jitters :
         call' = [c \in Ids |-> OnResponse(call[c], s, j)]
    /\ UNCHANGED outside

TwinFail ==
    /\ AllAt({"fetching"})
    /\ \A c \in Ids : call[c].timer
    /\ \E e \in [Ids -> TransportFailures], j \in Jitters :
         call' = [c \in Ids |-> OnCatch(call[c], e[c], j)]
    /\ UNCHANGED outside

TwinBackoffElapsed ==
    /\ AllAt({"backoffStatus", "backoffError"})
    /\ call' = [c \in Ids |-> OnBackoffElapsed(call[c])]
    /\ UNCHANGED outside

NextTwin ==
    \/ TwinStartAttempt
    \/ TwinSerializeFail
    \/ TwinFallThrough
    \/ TwinRespond
    \/ TwinFail
    \/ TwinBackoffElapsed

SpecTwin == InitTwin /\ [][NextTwin]_vars

(***************************************************************************)
(* Two calls of postWithRetry run concurrently: their steps interleave in   *)
(* any order, each call with its own body and its own outcomes.             *)
(***************************************************************************)
ConcRetriesValues == (0 - 1)..ConcRetriesBound

InitConc ==
    /\ MAX_RETRIES \in ConcRetriesValues
    /\ \E body \in [{1, 2} -> Bodies] :
         call = [c \in {1, 2} |-> InitCall(Url, body[c], JsonHeaders)]
    /\ NoHandler

SpecConc == InitConc /\ [][Next]_vars

(***************************************************************************)
(* BlobWatcher: one invocation, which makes the call of postWithRetry       *)
(***************************************************************************)
HandlerContexts == { Metadata(<<"a", "/", "b", "/", "c">>, NoUri) }

InitHandler ==
    /\ MAX_RETRIES \in MaxRetriesValues
    /\ DOWNSTREAM_URL \in {"", Url}
    /\ DOWNSTREAM_KEY \in {"", "key"}
    /\ FAIL_ON_NON_2XX \in BOOLEAN
    /\ \E meta \in HandlerContexts : inv = [c \in {1} |-> InitInv(meta)]
    /\ call = [c \in {1} |-> IdleCall]
    /\ ctx = NoContext
    /\ parsed = Blob(<< >>, << >>)

\* index.ts:125-129
ConfigError(c) ==
    /\ inv[c].pc = "trigger"
    /\ ~Configured
    /\ inv' = [inv EXCEPT ![c] = OnConfigError(inv[c])]
    /\ UNCHANGED <<env, call, ctx, parsed>>

\* index.ts:139-154
Invoke(c) ==
    /\ inv[c].pc = "trigger"
    /\ Configured
    /\ inv' = [inv EXCEPT ![c] = OnInvoke(inv[c])]
    /\ call' = [call EXCEPT ![c] = InitCall(DOWNSTREAM_URL, "payload", Headers)]
    /\ UNCHANGED <<env, ctx, parsed>>

\* index.ts:155-159
FinalError(c) ==
    /\ inv[c].pc = "awaiting"
    /\ call[c].pc = "done"
    /\ call[c].result.kind = "error"
    /\ inv' = [inv EXCEPT ![c] = OnFinalError(inv[c], call[c].result)]
    /\ UNCHANGED <<env, call, ctx, parsed>>

\* index.ts:161-168
ResponseReturned(c) ==
    /\ inv[c].pc = "awaiting"
    /\ call[c].pc = "done"
    /\ call[c].result.kind = "response"
    /\ \E readOk \in BOOLEAN :
         inv' = [inv EXCEPT ![c] =
                    OnResponseReturned(inv[c], call[c].result.status, readOk)]
    /\ UNCHANGED <<env, call, ctx, parsed>>

\* index.ts:162 on an undefined resp
UndefinedReturned(c) ==
    /\ inv[c].pc = "awaiting"
    /\ call[c].pc = "done"
    /\ call[c].result.kind = "undefined"
    /\ inv' = [inv EXCEPT ![c] = OnUndefinedReturned(inv[c])]
    /\ UNCHANGED <<env, call, ctx, parsed>>

NextHandler ==
    \/ \E c \in Ids : ConfigError(c)
    \/ \E c \in Ids : Invoke(c)
    \/ \E c \in Ids : StartAttempt(c)
    \/ \E c \in Ids : FallThrough(c)
    \/ \E c \in Ids : Respond(c)
    \/ \E c \in Ids : FetchReject(c)
    \/ \E c \in Ids : Timeout(c)
    \/ \E c \in Ids : BackoffElapsed(c)
    \/ \E c \in Ids : FinalError(c)
    \/ \E c \in Ids : ResponseReturned(c)
    \/ \E c \in Ids : UndefinedReturned(c)

SpecHandler == InitHandler /\ [][NextHandler]_vars

(***************************************************************************)
(* parseFromContext applied to every bounded trigger metadata               *)
(***************************************************************************)
InitParse ==
    /\ MAX_RETRIES = 0
    /\ DOWNSTREAM_URL = Url
    /\ DOWNSTREAM_KEY = ""
    /\ FAIL_ON_NON_2XX = TRUE
    /\ inv = << >>
    /\ call = << >>
    /\ \E s \in Strings(MaxLen), uri \in Uris : ctx = Metadata(s, uri)
    /\ parsed = Unparsed

\* index.ts:139
Parse ==
    /\ parsed = Unparsed
    /\ parsed' = parseFromContext(ctx)
    /\ UNCHANGED <<env, inv, call, ctx>>

NextParse == Parse

SpecParse == InitParse /\ [][NextParse]_vars

(***************************************************************************)
(* Observations shared by the properties                                   *)
(***************************************************************************)
Done(c) == call[c].pc = "done"

Last(seq) == seq[Len(seq)]

IsResponse(o) == o.kind = "response"

IsTransportFailure(o) == o.kind = "reject"

RetryableStatus(o) == IsResponse(o) /\ o.status \in RETRY_STATUSES

\* The outcomes of the loop iterations of call c, in order
Outcomes(c) == call[c].history

StatusSeq(c) == [i \in 1..Len(Outcomes(c)) |-> Outcomes(c)[i].status]

\* The step taken is a step of call c
Moves(c) == call'[c] # call[c]

\* The step taken is call c leaving the await of fetch with an outcome
Resolves(c) ==
    /\ call[c].pc = "fetching"
    /\ Len(call'[c].history) = Len(call[c].history) + 1

(***************************************************************************)
(* C1: for a non-negative integer MAX_RETRIES, one call of postWithRetry    *)
(* issues at most MAX_RETRIES + 1 requests, all indexed by the one counter  *)
(* `attempt`, which never exceeds MAX_RETRIES; a finished call has run 1 to *)
(* MAX_RETRIES + 1 loop iterations, each of which issued a request when the *)
(* body serializes (so at least 1 request), and exactly one when            *)
(* MAX_RETRIES = 0.                                                         *)
(***************************************************************************)
C1_AttemptBounds ==
    \A c \in Ids :
        MAX_RETRIES >= 0 =>
            /\ call[c].attempt \in 0..MAX_RETRIES
            /\ call[c].fetches <= call[c].attempt + 1
            /\ call[c].fetches <= MAX_RETRIES + 1
            /\ Done(c) =>
                 /\ Len(Outcomes(c)) = call[c].attempt + 1
                 /\ Len(Outcomes(c)) \in 1..(MAX_RETRIES + 1)
                 /\ CanSerialize(call[c].body) =>
                      /\ call[c].fetches = Len(Outcomes(c))
                      /\ call[c].fetches \in 1..(MAX_RETRIES + 1)
                      /\ MAX_RETRIES = 0 => call[c].fetches = 1

\* A finished call that used the whole budget, on a retryable status and on a
\* transport failure both
C1_Witness ==
    \E c \in Ids :
        /\ Done(c)
        /\ MAX_RETRIES = MaxRetriesBound
        /\ call[c].fetches = MAX_RETRIES + 1
        /\ \E i \in 1..Len(Outcomes(c)) : RetryableStatus(Outcomes(c)[i])
        /\ \E i \in 1..Len(Outcomes(c)) : IsTransportFailure(Outcomes(c)[i])

(***************************************************************************)
(* C2: every completed call of postWithRetry has produced exactly one of a  *)
(* returned HTTP response and a raised error (never the undefined lastResp  *)
(* of the return after the loop).                                           *)
(***************************************************************************)
C2_ExactlyOneOutcome ==
    \A c \in Ids :
        Done(c) => call[c].result.kind \in {"response", "error"}

(***************************************************************************)
(* C3: a 2xx response to the attempt with index k ends the call at once:    *)
(* the call is done with that response as its result, k + 1 requests were   *)
(* issued, k backoffs were taken (none after it), and a finished call takes *)
(* no further step.                                                         *)
(***************************************************************************)
C3_SuccessStep(c) ==
    (Resolves(c) /\ IsResponse(Last(call'[c].history))
                 /\ RespOk(Last(call'[c].history).status)) =>
        /\ call'[c].pc = "done"
        /\ call'[c].result = Returned(Last(call'[c].history).status)
        /\ call'[c].fetches = call[c].attempt + 1
        /\ call'[c].attempt = call[c].attempt
        /\ call'[c].backoffs = call[c].attempt
        /\ call'[c].backoff = 0
        /\ call'[c].inflight = 0

C3_SuccessReturnsImmediately ==
    [][\A c \in Ids : /\ C3_SuccessStep(c)
                      /\ (Done(c) => call'[c] = call[c])]_vars

\* Responses [503, 503, 503, 200] with MAX_RETRIES = 3: 4 requests, success
C3_Witness ==
    \E c \in Ids :
        /\ MAX_RETRIES = 3
        /\ Done(c)
        /\ StatusSeq(c) = <<503, 503, 503, 200>>
        /\ call[c].fetches = 4
        /\ call[c].result = Returned(200)

(***************************************************************************)
(* C4: a transport failure of the attempt with index a is not surfaced     *)
(* when a < MAX_RETRIES: a backoff is scheduled, and when it has elapsed    *)
(* the counter is a + 1 and the next request is issued; when                *)
(* a = MAX_RETRIES the call raises an error carrying the reason of this     *)
(* last failure and the retry count, after MAX_RETRIES + 1 requests (one    *)
(* request when MAX_RETRIES = 0).                                           *)
(***************************************************************************)
C4_FailureStep(c) ==
    (Resolves(c) /\ IsTransportFailure(Last(call'[c].history))) =>
        LET err == Last(call'[c].history)
            a == call[c].attempt
        IN  /\ a < MAX_RETRIES =>
                 /\ call'[c].pc = "backoffError"
                 /\ call'[c].result = NoResult
                 /\ call'[c].backoff > 0
                 /\ call'[c].attempt = a
            /\ a = MAX_RETRIES =>
                 /\ call'[c].pc = "done"
                 /\ call'[c].result.kind = "error"
                 /\ call'[c].result.reason =
                        (IF err.name = "AbortError" THEN "timeout" ELSE err.message)
                 /\ call'[c].result.retries = MAX_RETRIES
                 /\ call'[c].fetches = MAX_RETRIES + 1
                 /\ call'[c].backoff = 0
                 /\ MAX_RETRIES = 0 => call'[c].fetches = 1

C4_RetryStep(c) ==
    /\ (call[c].pc = "backoffError" /\ Moves(c)) =>
         /\ call'[c].pc = "loop"
         /\ call'[c].attempt = call[c].attempt + 1
         /\ call'[c].backoffs = call[c].backoffs + 1
    /\ (call[c].pc = "loop" /\ call[c].attempt > 0 /\ CanSerialize(call[c].body)
                            /\ Moves(c)) =>
         /\ call'[c].pc = "fetching"
         /\ call'[c].fetches = call[c].attempt + 1

C4_TransportFailure ==
    [][\A c \in Ids : C4_FailureStep(c) /\ C4_RetryStep(c)]_vars

\* A call that retried a transport failure, then raised on the last attempt
C4_Witness ==
    \E c \in Ids :
        /\ Done(c)
        /\ MAX_RETRIES >= 1
        /\ call[c].fetches = MAX_RETRIES + 1
        /\ \A i \in 1..Len(Outcomes(c)) : IsTransportFailure(Outcomes(c)[i])
        /\ call[c].result.kind = "error"
        /\ call[c].result.reason = "ECONNRESET"

(***************************************************************************)
(* C5: after a non-2xx response to the attempt with index a, a backoff is   *)
(* scheduled if and only if the status is in RETRY_STATUSES and             *)
(* a < MAX_RETRIES (otherwise the call ends); when that backoff has         *)
(* elapsed the counter is exactly a + 1 and the loop runs again.            *)
(***************************************************************************)
C5_Non2xxStep(c) ==
    (Resolves(c) /\ IsResponse(Last(call'[c].history))
                 /\ ~RespOk(Last(call'[c].history).status)) =>
        LET status == Last(call'[c].history).status
            a == call[c].attempt
        IN  /\ (call'[c].pc = "backoffStatus")
                  <=> (status \in RETRY_STATUSES /\ a < MAX_RETRIES)
            /\ call'[c].pc \in {"backoffStatus", "done"}
            /\ call'[c].attempt = a
            /\ (call'[c].backoff > 0) <=> (call'[c].pc = "backoffStatus")

C5_BackoffStep(c) ==
    (call[c].pc = "backoffStatus" /\ Moves(c)) =>
        /\ call'[c].pc = "loop"
        /\ call'[c].attempt = call[c].attempt + 1
        /\ call'[c].backoffs = call[c].backoffs + 1
        /\ call'[c].fetches = call[c].fetches

C5_RetryIffRetryableAndBudget ==
    [][\A c \in Ids : C5_Non2xxStep(c) /\ C5_BackoffStep(c)]_vars

\* A retryable status was retried once and the same status ended the call
\* when the budget was used up
C5_Witness ==
    \E c \in Ids :
        /\ Done(c)
        /\ MAX_RETRIES = 1
        /\ StatusSeq(c) = <<503, 503>>
        /\ call[c].backoffs = 1

(***************************************************************************)
(* C6: if every attempt got a non-2xx response with a status in             *)
(* RETRY_STATUSES, the call made exactly MAX_RETRIES + 1 attempts and       *)
(* returned the response of the last one; and a call whose last attempt     *)
(* received an HTTP response, of any status, returns it and raises nothing. *)
(***************************************************************************)
C6_ExhaustedRetryableReturned ==
    \A c \in Ids :
        (Done(c) /\ Len(Outcomes(c)) >= 1) =>
            /\ (\A i \in 1..Len(Outcomes(c)) : RetryableStatus(Outcomes(c)[i])) =>
                 /\ call[c].fetches = MAX_RETRIES + 1
                 /\ Len(Outcomes(c)) = MAX_RETRIES + 1
                 /\ call[c].result = Returned(Last(Outcomes(c)).status)
            /\ IsResponse(Last(Outcomes(c))) =>
                 /\ call[c].result.kind = "response"
                 /\ call[c].result.status = Last(Outcomes(c)).status

\* Responses [500, 500, 500, 500] with MAX_RETRIES = 3: 4 attempts, 500 returned
C6_Witness ==
    \E c \in Ids :
        /\ MAX_RETRIES = 3
        /\ Done(c)
        /\ StatusSeq(c) = <<500, 500, 500, 500>>
        /\ call[c].fetches = 4
        /\ call[c].result = Returned(500)

(***************************************************************************)
(* C7: a response whose status is neither 2xx nor in RETRY_STATUSES ends    *)
(* the call at once at whatever attempt index a it arrives: it is the       *)
(* result, no backoff is scheduled, a + 1 requests were issued and a        *)
(* backoffs taken (1 request and no retry when it answers the first         *)
(* attempt).                                                                *)
(***************************************************************************)
C7_RejectionStep(c) ==
    (Resolves(c) /\ IsResponse(Last(call'[c].history))
                 /\ ~RespOk(Last(call'[c].history).status)
                 /\ Last(call'[c].history).status \notin RETRY_STATUSES) =>
        /\ call'[c].pc = "done"
        /\ call'[c].result = Returned(Last(call'[c].history).status)
        /\ call'[c].backoff = 0
        /\ call'[c].fetches = call[c].attempt + 1
        /\ call'[c].backoffs = call[c].attempt
        /\ call'[c].attempt = call[c].attempt
        /\ call[c].attempt = 0 => (call'[c].fetches = 1 /\ call'[c].backoffs = 0)

C7_NonRetryableEndsCall ==
    [][\A c \in Ids : C7_RejectionStep(c) /\ (Done(c) => call'[c] = call[c])]_vars

\* 404 on the first attempt with MAX_RETRIES = 3: one request, no retry
C7_Witness ==
    \E c \in Ids :
        /\ MAX_RETRIES = 3
        /\ Done(c)
        /\ StatusSeq(c) = <<404>>
        /\ call[c].fetches = 1
        /\ call[c].backoffs = 0
        /\ call[c].result = Returned(404)

(***************************************************************************)
(* C8: a failure to serialize the body is surfaced at once: the call ends   *)
(* with an error in its first iteration, no backoff is scheduled or taken   *)
(* and the attempt counter stays 0, for every MAX_RETRIES.                  *)
(***************************************************************************)
C8_SerializationNotRetried ==
    \A c \in Ids :
        ~CanSerialize(call[c].body) =>
            /\ call[c].backoff = 0
            /\ call[c].backoffs = 0
            /\ call[c].attempt = 0
            /\ Len(Outcomes(c)) <= 1
            /\ Len(Outcomes(c)) = 1 => (Done(c) /\ call[c].result.kind = "error")

(***************************************************************************)
(* C9: a timeout is handled as any transport failure.  It takes one         *)
(* iteration of the loop, is followed by a backoff when                     *)
(* attempt < MAX_RETRIES and raises the terminal error, with reason         *)
(* "timeout", when attempt = MAX_RETRIES; and two calls whose outcome       *)
(* sequences differ only in which transport failures are timeouts are in    *)
(* the same state throughout, up to the reason text: same position, same    *)
(* counters, same delays, same kind of result.                              *)
(***************************************************************************)
Generic(o) == IF IsTransportFailure(o) THEN ErrOutcome("reject", "", "") ELSE o

EraseReason(st) ==
    [st EXCEPT !.history = [i \in 1..Len(st.history) |-> Generic(st.history[i])],
               !.log = [i \in 1..Len(st.log) |->
                           [st.log[i] EXCEPT !.cause = Generic(@)]],
               !.result = [@ EXCEPT !.reason = ""]]

C9_TimeoutHandled(c) ==
    (Len(Outcomes(c)) = call[c].attempt + 1 /\ Last(Outcomes(c)) = AbortError) =>
        /\ call[c].fetches = call[c].attempt + 1
        /\ call[c].attempt < MAX_RETRIES =>
             (call[c].pc = "backoffError" /\ call[c].backoff > 0
                /\ call[c].result = NoResult)
        /\ call[c].attempt = MAX_RETRIES =>
             (Done(c) /\ call[c].result.kind = "error"
                /\ call[c].result.reason = "timeout"
                /\ call[c].result.retries = MAX_RETRIES)

C9_TimeoutLikeTransportFailure ==
    /\ \A c \in Ids : C9_TimeoutHandled(c)
    /\ \A c, d \in Ids : EraseReason(call[c]) = EraseReason(call[d])

\* Both calls are finished, after a retry each, and everywhere one had a
\* timeout the other had a connection error
C9_Witness ==
    /\ Ids = {1, 2}
    /\ Done(1) /\ Done(2)
    /\ MAX_RETRIES = 2
    /\ Len(Outcomes(1)) = 3
    /\ Outcomes(1)[1] = AbortError /\ Outcomes(2)[1] = NetError("ECONNRESET")
    /\ Outcomes(1)[2] = NetError("fetch failed") /\ Outcomes(2)[2] = AbortError
    /\ Outcomes(1)[3] = AbortError /\ Outcomes(2)[3] = NetError("fetch failed")
    /\ call[1].result.reason = "timeout"
    /\ call[2].result.reason = "fetch failed"

(***************************************************************************)
(* C10: the attempts of one call are strictly sequential.  At most one      *)
(* request is in flight, exactly while the call awaits fetch; every         *)
(* request issued before has its outcome recorded; and a request is issued  *)
(* only from the top of the loop, with none in flight, no timer armed and   *)
(* no backoff pending.                                                      *)
(***************************************************************************)
FetchOutcomes(c) ==
    Cardinality({i \in 1..Len(Outcomes(c)) : Outcomes(c)[i].kind # "serialize"})

C10_OneInFlight(c) ==
    /\ call[c].inflight \in {0, 1}
    /\ (call[c].inflight = 1) <=> (call[c].pc = "fetching")
    /\ call[c].fetches = FetchOutcomes(c) + call[c].inflight

C10_IssueStep(c) ==
    (call'[c].fetches # call[c].fetches) =>
        /\ call'[c].fetches = call[c].fetches + 1
        /\ call[c].pc = "loop"
        /\ call[c].inflight = 0
        /\ ~call[c].timer
        /\ call[c].backoff = 0
        /\ FetchOutcomes(c) = call[c].fetches
        /\ call'[c].inflight = 1

C10_StrictlySequential ==
    /\ [](\A c \in Ids : C10_OneInFlight(c))
    /\ [][\A c \in Ids : C10_IssueStep(c)]_vars

\* The third request is in flight; the first two ended in a timeout and a 503
C10_Witness ==
    \E c \in Ids :
        /\ call[c].pc = "fetching"
        /\ call[c].fetches = 3
        /\ call[c].inflight = 1
        /\ Len(Outcomes(c)) = 2
        /\ Outcomes(c)[1] = AbortError
        /\ Outcomes(c)[2] = RespOutcome(503)

(***************************************************************************)
(* C11: the timeout timer belongs to one attempt.  At most one timer is     *)
(* armed, it is the timer of the current attempt, and it is armed exactly  *)
(* while the request of that attempt is awaited: none is armed during a     *)
(* backoff or once the call has returned or thrown.  A timeout ends only    *)
(* the attempt its timer was armed for, and the retry sequence goes on      *)
(* while budget is left.                                                    *)
(***************************************************************************)
C11_OneTimer(c) ==
    /\ Cardinality(call[c].timers) <= 1
    /\ call[c].timers \subseteq {call[c].attempt}
    /\ (call[c].timers # {}) <=> (call[c].pc = "fetching")
    /\ call[c].timer <=> (call[c].timers # {})
    /\ call[c].pc \in {"backoffStatus", "backoffError", "done"} => call[c].timers = {}

C11_TimeoutStep(c) ==
    (Resolves(c) /\ Last(call'[c].history) = AbortError) =>
        /\ call[c].timers = {call[c].attempt}
        /\ Len(call[c].history) = call[c].attempt
        /\ call'[c].timers = {}
        /\ call'[c].attempt = call[c].attempt
        /\ call[c].attempt < MAX_RETRIES => call'[c].pc = "backoffError"

C11_ArmStep(c) ==
    (call'[c].timers # call[c].timers /\ call'[c].timers # {}) =>
        /\ call[c].timers = {}
        /\ call'[c].timers = {call[c].attempt}
        /\ call'[c].pc = "fetching"

C11_TimerPerAttempt ==
    /\ [](\A c \in Ids : C11_OneTimer(c))
    /\ [][\A c \in Ids : C11_TimeoutStep(c) /\ C11_ArmStep(c)]_vars

\* The timer of attempt 0 fired and ended attempt 0; attempt 1 is in flight
\* under its own timer
C11_Witness ==
    \E c \in Ids :
        /\ call[c].pc = "fetching"
        /\ call[c].attempt = 1
        /\ call[c].timers = {1}
        /\ Outcomes(c) = <<AbortError>>

(***************************************************************************)
(* C12: the backoff delay chosen after the attempt with index a, for a in   *)
(* 0..MAX_RETRIES-1, lies in [RETRY_BASE_MS * 2^a, RETRY_BASE_MS * 2^a +    *)
(* 150], whether a retryable status or a failure caused the retry; it is    *)
(* never below the deterministic term, and it is the delay logged.          *)
(***************************************************************************)
InBackoff(c) == call[c].pc \in {"backoffStatus", "backoffError"}

DelayInRange(delay, a) ==
    /\ delay >= RETRY_BASE_MS * (2 ^ a)
    /\ delay <= RETRY_BASE_MS * (2 ^ a) + 150

C12_BackoffRange ==
    \A c \in Ids :
        /\ InBackoff(c) =>
             /\ call[c].attempt \in 0..(MAX_RETRIES - 1)
             /\ DelayInRange(call[c].backoff, call[c].attempt)
             /\ Last(call[c].log).delay = call[c].backoff
        /\ \A i \in 1..Len(call[c].log) :
             DelayInRange(call[c].log[i].delay, call[c].log[i].attempt - 1)

\* A status caused the first backoff, with the largest jitter, and a failure
\* the third, with none
C12_Witness ==
    \E c \in Ids :
        /\ call[c].pc = "backoffError"
        /\ call[c].attempt = 2
        /\ call[c].backoff = 1600
        /\ IsResponse(call[c].log[1].cause)
        /\ call[c].log[1].delay = 549

(***************************************************************************)
(* C13: when postWithRetry has returned a response, BlobWatcher raises      *)
(* exactly when the status is not 2xx and FAIL_ON_NON_2XX is set, and       *)
(* returns normally otherwise; whether the body could be read for the log   *)
(* changes nothing.                                                         *)
(***************************************************************************)
Finished(c) == inv[c].pc = "done"

GotResponse(c) == Done(c) /\ call[c].result.kind = "response"

C13_FailOnNon2xx ==
    \A c \in DOMAIN inv :
        (Finished(c) /\ GotResponse(c)) =>
            LET status == call[c].result.status
                non2xx == status < 200 \/ status > 299
            IN  /\ inv[c].outcome \in {"thrown", "returned"}
                /\ (inv[c].outcome = "thrown") <=> (non2xx /\ FAIL_ON_NON_2XX)
                /\ (non2xx /\ ~FAIL_ON_NON_2XX) => inv[c].outcome = "returned"
                /\ ~non2xx => inv[c].outcome = "returned"

\* A terminal 503 with the flag set raises although the body could not be read
C13_Witness ==
    \E c \in DOMAIN inv :
        /\ Finished(c)
        /\ GotResponse(c)
        /\ call[c].result.status = 503
        /\ FAIL_ON_NON_2XX
        /\ inv[c].outcome = "thrown"
        /\ Last(inv[c].log) = Line("Downstream returned", 503, "")

(***************************************************************************)
(* C14: when DOWNSTREAM_URL is not configured, BlobWatcher raises the       *)
(* configuration error and postWithRetry is never entered: no request is    *)
(* sent, no timer armed, nothing but the configuration error logged.        *)
(***************************************************************************)
C14_ConfigErrorBeforeNetwork ==
    \A c \in DOMAIN inv :
        DOWNSTREAM_URL = "" =>
            /\ call[c] = IdleCall
            /\ call[c].fetches = 0
            /\ call[c].sent = << >>
            /\ inv[c].pc \in {"trigger", "done"}
            /\ Finished(c) =>
                 /\ inv[c].outcome = "thrown"
                 /\ inv[c].error = "Missing DOWNSTREAM_FUNCTION_URL"
                 /\ inv[c].log = <<Line("Config error", NoStatus, "")>>

\* The invocation has ended with the configuration error
C14_Witness ==
    \E c \in DOMAIN inv :
        /\ DOWNSTREAM_URL = ""
        /\ Finished(c)
        /\ inv[c].outcome = "thrown"
        /\ call[c].pc = "idle"

(***************************************************************************)
(* C15: every request of one call, retries included, carries the url, the   *)
(* header set and the body the call was made with, and no step of           *)
(* postWithRetry changes them.                                              *)
(***************************************************************************)
C15_SameRequest(c) ==
    /\ Len(call[c].sent) = call[c].fetches
    /\ \A i \in 1..Len(call[c].sent) :
         /\ call[c].sent[i] = call[c].sent[1]
         /\ call[c].sent[i].url = call[c].url
         /\ call[c].sent[i].headers = call[c].headers
         /\ call[c].sent[i].body = call[c].body

C15_ArgumentsKept(c) ==
    /\ call'[c].url = call[c].url
    /\ call'[c].headers = call[c].headers
    /\ call'[c].body = call[c].body
    /\ Len(call'[c].sent) >= Len(call[c].sent)
    /\ SubSeq(call'[c].sent, 1, Len(call[c].sent)) = call[c].sent

C15_RequestUnchanged ==
    /\ [](\A c \in Ids : C15_SameRequest(c))
    /\ [][\A c \in Ids : C15_ArgumentsKept(c)]_vars

\* Three requests were sent, the last two retries, each with the function key
C15_Witness ==
    \E c \in Ids :
        /\ Len(call[c].sent) = 3
        /\ call[c].attempt = 2
        /\ call[c].headers = KeyHeaders
        /\ call[c].sent[3] = [url |-> Url, headers |-> KeyHeaders, body |-> "payload"]

(***************************************************************************)
(* C16: every backoff is preceded by a log line with the number of the      *)
(* retry, the delay chosen and the status or error that caused it, one      *)
(* line per backoff; and when the call has returned a response or thrown,   *)
(* BlobWatcher logs that outcome (the status, or the error's reason) before *)
(* the invocation ends.                                                     *)
(***************************************************************************)
C16_RetryLogged(c) ==
    /\ Len(call[c].log) = call[c].backoffs + (IF InBackoff(c) THEN 1 ELSE 0)
    /\ InBackoff(c) =>
         /\ Last(call[c].log).attempt = call[c].attempt + 1
         /\ Last(call[c].log).of = MAX_RETRIES
         /\ Last(call[c].log).delay = call[c].backoff
         /\ Last(call[c].log).cause = Last(call[c].history)
    /\ \A i \in 1..Len(call[c].log) :
         /\ call[c].log[i].attempt = i
         /\ call[c].log[i].cause = call[c].history[i]

C16_OutcomeLogged(c) ==
    (Finished(c) /\ Done(c)) =>
        /\ call[c].result.kind = "response" =>
             /\ Last(inv[c].log).what = "Downstream returned"
             /\ Last(inv[c].log).status = call[c].result.status
        /\ call[c].result.kind = "error" =>
             Last(inv[c].log) =
                 Line("Downstream final error", NoStatus, call[c].result.reason)

C16_DecisionsLogged ==
    /\ \A c \in Ids : C16_RetryLogged(c)
    /\ \A c \in DOMAIN inv : C16_OutcomeLogged(c)

\* Two retries were logged, then the timeout of the last attempt was thrown
\* and logged by BlobWatcher
C16_Witness ==
    \E c \in DOMAIN inv :
        /\ Finished(c)
        /\ MAX_RETRIES = 2
        /\ Len(call[c].log) = 2
        /\ call[c].log[1].cause = RespOutcome(503)
        /\ call[c].log[2].cause = NetError("ECONNRESET")
        /\ call[c].result.kind = "error"
        /\ Last(inv[c].log) = Line("Downstream final error", NoStatus, "timeout")

(***************************************************************************)
(* C17: concurrent calls share no mutable state.  Every step changes the    *)
(* record of one call only and leaves the configuration as it was, and      *)
(* under every interleaving each call makes the attempts and ends with the  *)
(* result that its own sequence of attempt outcomes gives a call running    *)
(* alone: it stops at the first outcome that is terminal at its index.      *)
(***************************************************************************)
\* Outcome o of the attempt with index a ends a call running alone
TerminalAt(o, a) ==
    IF IsResponse(o)
    THEN (o.status >= 200 /\ o.status <= 299)
           \/ o.status \notin RETRY_STATUSES \/ a >= MAX_RETRIES
    ELSE a >= MAX_RETRIES

\* The result a call running alone ends with on terminal outcome o
AloneResult(o) ==
    IF IsResponse(o)
    THEN [kind |-> "response", status |-> o.status, reason |-> "", retries |-> 0]
    ELSE [kind |-> "error", status |-> NoStatus,
          reason |-> IF o.name = "AbortError" THEN "timeout" ELSE o.message,
          retries |-> MAX_RETRIES]

C17_AsAlone(c) ==
    MAX_RETRIES >= 0 =>
        LET h == Outcomes(c)
        IN  /\ \A i \in 1..(Len(h) - 1) : ~TerminalAt(h[i], i - 1)
            /\ Done(c) <=> (Len(h) >= 1 /\ TerminalAt(Last(h), Len(h) - 1))
            /\ Done(c) => call[c].result = AloneResult(Last(h))
            /\ call[c].fetches = FetchOutcomes(c) + call[c].inflight
            /\ call[c].attempt =
                   Len(h) - (IF InBackoff(c) \/ Done(c) THEN 1 ELSE 0)

C17_OneCallPerStep ==
    /\ env' = env
    /\ \E c \in Ids : \A d \in Ids \ {c} : call'[d] = call[d]

C17_NoSharedState ==
    /\ [](\A c \in Ids : C17_AsAlone(c))
    /\ [][C17_OneCallPerStep]_vars

\* Call 1 has been retried and has ended with a 200 while call 2, whose first
\* attempt timed out, has its second request in flight
C17_Witness ==
    /\ Ids = {1, 2}
    /\ MAX_RETRIES = 1
    /\ Done(1)
    /\ StatusSeq(1) = <<503, 200>>
    /\ call[1].result = Returned(200)
    /\ call[2].pc = "fetching"
    /\ call[2].attempt = 1
    /\ Outcomes(2) = <<AbortError>>

(***************************************************************************)
(* C18: for a blobTrigger descriptor that contains a '/', parseFromContext  *)
(* splits it at the first '/' only: the container is the text before it     *)
(* (and holds no '/'), the name is all the text after it, later slashes     *)
(* included, and this is the result whatever uri the metadata carries.      *)
(***************************************************************************)
C18_SplitAtFirstSlash ==
    (parsed # Unparsed /\ \E i \in 1..Len(ctx.blobTrigger) : ctx.blobTrigger[i] = "/") =>
        LET s == ctx.blobTrigger
        IN  /\ \A i \in 1..Len(parsed.container) : parsed.container[i] # "/"
            /\ parsed.container \o <<"/">> \o parsed.name = s
            /\ \E i \in 1..Len(s) :
                 /\ s[i] = "/"
                 /\ \A j \in 1..(i - 1) : s[j] # "/"
                 /\ parsed.container = [k \in 1..(i - 1) |-> s[k]]
                 /\ parsed.name = [k \in 1..(Len(s) - i) |-> s[i + k]]

\* "a/b/c" gives container "a" and name "b/c", although a uri naming another
\* container is present
C18_Witness ==
    /\ ctx = Metadata(<<"a", "/", "b", "/", "c">>,
                      UrlWithPath(<<"/", "d", "/", "c", "/", "p">>))
    /\ parsed = Blob(<<"a">>, <<"b", "/", "c">>)

(***************************************************************************)
(* C19: when every step that can be taken is eventually taken (requests     *)
(* resolve, backoff timers fire), a call of postWithRetry with              *)
(* MAX_RETRIES >= 0 eventually ends with a response or an error; the        *)
(* attempt counter changes only when a backoff has elapsed, then by exactly *)
(* one, and never exceeds MAX_RETRIES.                                      *)
(***************************************************************************)
C19_CounterStep(c) ==
    /\ (call'[c].attempt # call[c].attempt) =>
         /\ InBackoff(c)
         /\ call'[c].attempt = call[c].attempt + 1
         /\ call'[c].attempt <= MAX_RETRIES
    /\ (InBackoff(c) /\ Moves(c)) => call'[c].attempt = call[c].attempt + 1

C19_Terminates ==
    /\ (MAX_RETRIES >= 0) =>
         <>(\A c \in Ids : Done(c) /\ call[c].result.kind \in {"response", "error"})
    /\ [][\A c \in Ids : C19_CounterStep(c)]_vars

\* A call that was retried MaxRetriesBound times has ended
C19_Witness ==
    \E c \in Ids :
        /\ Done(c)
        /\ MAX_RETRIES = MaxRetriesBound
        /\ call[c].attempt = MAX_RETRIES
        /\ call[c].backoffs = MAX_RETRIES
        /\ call[c].result.kind = "error"

(***************************************************************************)
(* C20: backoffs are taken between consecutive attempts and nowhere else.   *)
(* The backoffs completed always equal the attempt index; none is pending   *)
(* or taken before the first attempt; none is pending once the call has     *)
(* ended; and a call that ended after n >= 1 attempts has taken exactly     *)
(* n - 1 backoffs.                                                          *)
(***************************************************************************)
C20_BackoffsBetweenAttempts ==
    \A c \in Ids :
        LET n == Len(Outcomes(c))
        IN  /\ call[c].backoffs = call[c].attempt
            /\ (call[c].backoff > 0) <=> InBackoff(c)
            /\ n = 0 => (call[c].backoffs = 0 /\ call[c].backoff = 0)
            /\ call[c].pc = "fetching" => call[c].backoffs = call[c].fetches - 1
            /\ InBackoff(c) => call[c].backoffs = n - 1
            /\ (Done(c) /\ n >= 1) =>
                 /\ call[c].backoffs = n - 1
                 /\ call[c].backoff = 0
                 /\ CanSerialize(call[c].body) => call[c].backoffs = call[c].fetches - 1

\* Four attempts and three backoffs, then the call ended
C20_Witness ==
    \E c \in Ids :
        /\ Done(c)
        /\ call[c].fetches = 4
        /\ call[c].backoffs = 3
        /\ Len(call[c].log) = 3

====
